---- MODULE Spec2Model ----
(***************************************************************************)
(* Model of scripts/lambda-update-nodegroup.py: lambda_handler reads its   *)
(* configuration from the environment, describes an EKS managed node       *)
(* group, looks the recommended AMI release version up in SSM, compares    *)
(* the two and conditionally calls update_nodegroup_version.  The remote   *)
(* services are the environment: every answer they can give (a response,   *)
(* a ClientError with any error response, any other exception) is a        *)
(* nondeterministic choice.  Python dicts are records, a missing key is a  *)
(* KeyError.                                                               *)
(***************************************************************************)
EXTENDS Naturals, Sequences, FiniteSets, TLC

\* ------------------------------------------------------------------ bounds
MaxInvocations == 2

\* ------------------------------------------------------------ value sets
None   == "<None>"      \* Python None / local not yet assigned
Absent == "<absent>"    \* os.environ has no such key
NoEntry == "<no-entry>" \* the parameter registry has no such path
NoRelease == "<no-release>" \* the node group reports no releaseVersion

DefaultRegion == "us-west-2"

ClusterValues   == {Absent, "", "my-eks-cluster"}
NodegroupValues == {Absent, "", "my-eks-nodegroup"}
RegionValues    == {Absent, "", "us-east-1"}

K8sVersions == {"1.26", "1.27"}
Releases    == {"1.26.12-20240307", "1.26.12-20240329"}
UpdateIds   == {"update-1", "update-2"}
ErrorCodes  == {"ResourceNotFoundException", "InvalidParameterException",
                "ThrottlingException"}
ErrorMessage == "service message"
Meta == "meta"

\* dict helpers ---------------------------------------------------------
HasKey(d, k) == k \in DOMAIN d

\* json.dumps: the value serialised; a str is quoted, a dict keeps its keys
JsonDumps(x) == [json |-> x]

\* os.environ.get(key) and os.environ.get(key, default)
EnvGetNoDefault(environ, key, default) == IF environ[key] = Absent THEN None ELSE environ[key]
EnvGet(environ, key, default) == IF environ[key] = Absent THEN default ELSE environ[key]

\* truthiness of an Optional[str]
Truthy(v) == v # None /\ v # ""

\* all([cluster_name, nodegroup_name, region])
AllPresentIgnoringRegion(c, n, r) == Truthy(c) /\ Truthy(n)
AllPresent(c, n, r) == Truthy(c) /\ Truthy(n) /\ Truthy(r)

\* f"/aws/service/eks/optimized-ami/{v}/amazon-linux-2/recommended/release_version"
SsmParameter(v) == <<"/aws/service/eks/optimized-ami/", v,
                     "/amazon-linux-2/recommended/release_version">>

\* nodegroup.get('releaseVersion', 'unknown')
ReleaseOfAlwaysUnknown(nodegroup) == "unknown"
ReleaseOf(nodegroup) ==
    IF HasKey(nodegroup, "releaseVersion") THEN nodegroup.releaseVersion ELSE "unknown"

\* current_release_version == latest_release_version (str equality)
VersionsEqualNever(a, b) == FALSE
VersionsEqual(a, b) == a = b

\* keyword arguments of eks_client.update_nodegroup_version
UpdateRequestForced(c, n, latest) ==
    [clusterName |-> c, nodegroupName |-> n, releaseVersion |-> latest, force |-> TRUE]
UpdateRequest(c, n, latest) ==
    [clusterName |-> c, nodegroupName |-> n, releaseVersion |-> latest, force |-> FALSE]

\* ------------------------------------------------- exceptions and results
NoResponse == [ResponseMetadata |-> "n/a"]
Exc(t, resp) == [type |-> t, response |-> resp]
KeyErrorExc == Exc("KeyError", NoResponse)

\* ParameterNotFound is a subclass of ClientError
IsClientError(e) == e.type \in {"ClientError", "ParameterNotFound"}

\* every shape of e.response a ClientError can carry
ErrorResponses ==
    { [Error |-> [Code |-> c, Message |-> ErrorMessage], ResponseMetadata |-> Meta] : c \in ErrorCodes }
    \cup { [Error |-> [Code |-> "ResourceNotFoundException"], ResponseMetadata |-> Meta],
           [Error |-> [Message |-> ErrorMessage], ResponseMetadata |-> Meta],
           [ResponseMetadata |-> Meta] }

WellFormedError(resp) ==
    /\ HasKey(resp, "Error")
    /\ HasKey(resp.Error, "Code")
    /\ HasKey(resp.Error, "Message")

OtherExceptions == { Exc("EndpointConnectionError", NoResponse) }

Returned(x, r) == [kind |-> "return", exit |-> x, result |-> r]
Raised(e)      == [kind |-> "raise", exit |-> "Raised", result |-> [raised |-> e.type]]

\* classification of a well-formed ClientError, lines 85-99
ClassifyAll500(code, msg, c, n) ==
    Returned("ServiceError",
             [statusCode |-> 500, body |-> JsonDumps(<<"Error updating node group: ", msg>>)])
Classify(code, msg, c, n) ==
    IF code = "ResourceNotFoundException"
    THEN Returned("NotFound",
             [statusCode |-> 404, body |-> JsonDumps(<<"Cluster ", c, " or node group ", n, " not found">>)])
    ELSE IF code = "InvalidParameterException"
    THEN Returned("InvalidParameter",
             [statusCode |-> 400, body |-> JsonDumps(<<"Invalid parameters: ", msg>>)])
    ELSE Returned("ServiceError",
             [statusCode |-> 500, body |-> JsonDumps(<<"Error updating node group: ", msg>>)])

\* the two outer except clauses, lines 81-105.  A KeyError raised inside the
\* ClientError clause is not caught by the sibling "except Exception" clause.
OuterExcept(e, c, n) ==
    IF IsClientError(e)
    THEN IF ~HasKey(e.response, "Error") THEN Raised(KeyErrorExc)
         ELSE IF ~HasKey(e.response.Error, "Code") THEN Raised(KeyErrorExc)
         ELSE IF ~HasKey(e.response.Error, "Message") THEN Raised(KeyErrorExc)
         ELSE Classify(e.response.Error.Code, e.response.Error.Message, c, n)
    ELSE Returned("UnexpectedError",
             [statusCode |-> 500, body |-> JsonDumps(<<"Unexpected error: ", e.type>>)])

\* the inner except clause, lines 47-52
ParameterNotFoundUncaught(v) ==
    [statusCode |-> 500, body |-> JsonDumps(<<"Unexpected error: ", "ParameterNotFound">>)]
ParameterNotFoundResult(v) ==
    [statusCode |-> 400, body |-> JsonDumps(<<"No AMI found for Kubernetes version ", v>>)]

\* ------------------------------------------------------------------ state
VARIABLES
    environ,                  \* os.environ, fixed for the function's lifetime
    ngVersion, ngRelease,     \* the node group as the EKS service holds it
    ssm,                      \* the parameter registry: platform version -> value
    pendingUpdate,            \* release version of an accepted, not yet reflected update
    applied,                  \* updates the EKS service accepted during this invocation
    inv,                      \* number of the current invocation
    pc,                       \* position of lambda_handler
    cluster_name, nodegroup_name, region,
    current_k8s_version, current_release_version,
    ssm_parameter, latest_release_version, update_id,
    result, exit,             \* what the invocation returned, and through which return
    clientCalls, describeCalls, lookupCalls, updateCalls,
    clientRes, describeRes, lookupRes, updateRes, updateReq,
    prev                      \* summary of the previous invocation

world  == <<environ, ngVersion, ngRelease, ssm, pendingUpdate, applied>>
locals == <<cluster_name, nodegroup_name, region, current_k8s_version,
            current_release_version, ssm_parameter, latest_release_version, update_id>>
calls  == <<clientCalls, describeCalls, lookupCalls, updateCalls>>
answers == <<clientRes, describeRes, lookupRes, updateRes, updateReq>>
vars   == <<world, inv, pc, locals, result, exit, calls, answers, prev>>

NoResult == [pending |-> TRUE]
NoAnswer == [kind |-> "none"]
NoPrev   == [exit |-> "none", target |-> None,
             ssm |-> [v \in K8sVersions |-> NoEntry], updateCalls |-> 0]

Terminal == pc \in {"done", "raised"}

\* what the services answer ------------------------------------------------
Ok(resp)  == [kind |-> "ok", response |-> resp]
Err(e)    == [kind |-> "exception", exception |-> e]

ClientErrors == { Exc("ClientError", r) : r \in ErrorResponses }

\* describe_nodegroup answers with the node group as the service holds it
NodegroupOf(v, r) ==
    IF r = NoRelease THEN [version |-> v] ELSE [version |-> v, releaseVersion |-> r]
DescribeTrue(v, r) == Ok([nodegroup |-> NodegroupOf(v, r), ResponseMetadata |-> Meta])
DescribeAnswers(v, r) ==
    { DescribeTrue(v, r),
      Ok([ResponseMetadata |-> Meta]),
      Ok([nodegroup |-> [nodegroupName |-> "ng"], ResponseMetadata |-> Meta]) }
    \cup { Err(e) : e \in ClientErrors \cup OtherExceptions }

\* get_parameter answers from the registry entry of the path
ParameterNotFoundExc ==
    Exc("ParameterNotFound",
        [Error |-> [Code |-> "ParameterNotFound", Message |-> ErrorMessage], ResponseMetadata |-> Meta])
LookupTrue(entry) ==
    IF entry = NoEntry THEN Err(ParameterNotFoundExc)
    ELSE Ok([Parameter |-> [Value |-> entry], ResponseMetadata |-> Meta])
LookupAnswers(entry) ==
    { LookupTrue(entry),
      Ok([ResponseMetadata |-> Meta]),
      Ok([Parameter |-> [Name |-> "p"], ResponseMetadata |-> Meta]) }
    \cup { Err(e) : e \in ClientErrors \cup OtherExceptions }

\* update_nodegroup_version: accepted (a response) or rejected (an exception)
UpdateAnswers ==
    { Ok([update |-> [id |-> u], ResponseMetadata |-> Meta]) : u \in UpdateIds }
    \cup { Ok([ResponseMetadata |-> Meta]),
           Ok([update |-> [status |-> "InProgress"], ResponseMetadata |-> Meta]) }
    \cup { Err(e) : e \in ClientErrors \cup OtherExceptions }

ClientAnswers == { Ok(NoResponse), Err(Exc("InvalidRegionError", NoResponse)) }

\* ------------------------------------------------------------------- Init
Init ==
    /\ environ \in [CLUSTER_NAME : ClusterValues, NODEGROUP_NAME : NodegroupValues,
                    AWS_REGION : RegionValues]
    /\ ngVersion \in K8sVersions
    /\ ngRelease \in Releases \cup {NoRelease}
    /\ ssm \in [K8sVersions -> Releases \cup {NoEntry}]
    /\ pendingUpdate = None
    /\ applied = 0
    /\ inv = 1
    /\ pc = "start"
    /\ cluster_name = None /\ nodegroup_name = None /\ region = None
    /\ current_k8s_version = None /\ current_release_version = None
    /\ ssm_parameter = None /\ latest_release_version = None /\ update_id = None
    /\ result = NoResult /\ exit = "none"
    /\ clientCalls = 0 /\ describeCalls = 0 /\ lookupCalls = 0 /\ updateCalls = 0
    /\ clientRes = NoAnswer /\ describeRes = NoAnswer /\ lookupRes = NoAnswer
    /\ updateRes = NoAnswer /\ updateReq = NoAnswer
    /\ prev = NoPrev

\* the invocation ends: a return statement or an exception leaving the handler
Finish(o) ==
    /\ pc' = IF o.kind = "return" THEN "done" ELSE "raised"
    /\ exit' = o.exit
    /\ result' = o.result

\* lines 13-22: read the environment, validate
ReadConfig ==
    /\ pc = "start"
    /\ LET c == EnvGet(environ, "CLUSTER_NAME", None)
           n == EnvGet(environ, "NODEGROUP_NAME", None)
           r == EnvGet(environ, "AWS_REGION", DefaultRegion)
       IN /\ cluster_name' = c /\ nodegroup_name' = n /\ region' = r
          /\ IF ~AllPresent(c, n, r)
             THEN Finish(Returned("ConfigInvalid",
                     [statusCode |-> 400,
                      body |-> JsonDumps("Missing required environment variables")]))
             ELSE pc' = "clients" /\ UNCHANGED <<exit, result>>
    /\ UNCHANGED <<world, inv, current_k8s_version, current_release_version,
                   ssm_parameter, latest_release_version, update_id, calls, answers, prev>>

\* lines 26-27: boto3.client('eks'), boto3.client('ssm')
CreateClients ==
    /\ pc = "clients"
    /\ \E a \in ClientAnswers :
          /\ clientRes' = a
          /\ clientCalls' = clientCalls + 1
          /\ IF a.kind = "exception"
             THEN Finish(OuterExcept(a.exception, cluster_name, nodegroup_name))
             ELSE pc' = "describe" /\ UNCHANGED <<exit, result>>
    /\ UNCHANGED <<world, inv, locals, describeCalls, lookupCalls, updateCalls,
                   describeRes, lookupRes, updateRes, updateReq, prev>>

\* lines 30-38: describe_nodegroup and the reading of its response
Describe ==
    /\ pc = "describe"
    /\ \E a \in DescribeAnswers(ngVersion, ngRelease) :
          /\ describeRes' = a
          /\ describeCalls' = describeCalls + 1
          /\ IF a.kind = "exception"
             THEN /\ Finish(OuterExcept(a.exception, cluster_name, nodegroup_name))
                  /\ UNCHANGED <<current_k8s_version, current_release_version>>
             ELSE IF ~HasKey(a.response, "nodegroup")
             THEN /\ Finish(OuterExcept(KeyErrorExc, cluster_name, nodegroup_name))
                  /\ UNCHANGED <<current_k8s_version, current_release_version>>
             ELSE IF ~HasKey(a.response.nodegroup, "version")
             THEN /\ Finish(OuterExcept(KeyErrorExc, cluster_name, nodegroup_name))
                  /\ UNCHANGED <<current_k8s_version, current_release_version>>
             ELSE /\ current_k8s_version' = a.response.nodegroup.version
                  /\ current_release_version' = ReleaseOf(a.response.nodegroup)
                  /\ pc' = "lookup"
                  /\ UNCHANGED <<exit, result>>
    /\ UNCHANGED <<world, inv, cluster_name, nodegroup_name, region, ssm_parameter,
                   latest_release_version, update_id, clientCalls, lookupCalls,
                   updateCalls, clientRes, lookupRes, updateRes, updateReq, prev>>

\* lines 41-52: build the path, get_parameter, the inner except clause
Lookup ==
    /\ pc = "lookup"
    /\ ssm_parameter' = SsmParameter(current_k8s_version)
    /\ \E a \in LookupAnswers(ssm[current_k8s_version]) :
          /\ lookupRes' = a
          /\ lookupCalls' = lookupCalls + 1
          /\ IF a.kind = "exception"
             THEN /\ IF a.exception.type = "ParameterNotFound"
                     THEN Finish(Returned("Unsupported",
                                   ParameterNotFoundResult(current_k8s_version)))
                     ELSE Finish(OuterExcept(a.exception, cluster_name, nodegroup_name))
                  /\ UNCHANGED latest_release_version
             ELSE IF ~HasKey(a.response, "Parameter")
             THEN /\ Finish(OuterExcept(KeyErrorExc, cluster_name, nodegroup_name))
                  /\ UNCHANGED latest_release_version
             ELSE IF ~HasKey(a.response.Parameter, "Value")
             THEN /\ Finish(OuterExcept(KeyErrorExc, cluster_name, nodegroup_name))
                  /\ UNCHANGED latest_release_version
             ELSE /\ latest_release_version' = a.response.Parameter.Value
                  /\ pc' = "compare"
                  /\ UNCHANGED <<exit, result>>
    /\ UNCHANGED <<world, inv, cluster_name, nodegroup_name, region, current_k8s_version,
                   current_release_version, update_id, clientCalls, describeCalls,
                   updateCalls, clientRes, describeRes, updateRes, updateReq, prev>>

\* lines 55-60: is an update needed
Compare ==
    /\ pc = "compare"
    /\ IF VersionsEqual(current_release_version, latest_release_version)
       THEN Finish(Returned("UpToDate",
                     [statusCode |-> 200, body |-> JsonDumps("Node group is up to date")]))
       ELSE pc' = "update" /\ UNCHANGED <<exit, result>>
    /\ UNCHANGED <<world, inv, locals, calls, answers, prev>>

\* lines 63-79: update_nodegroup_version and the reading of its response
Update ==
    /\ pc = "update"
    /\ updateReq' = UpdateRequest(cluster_name, nodegroup_name, latest_release_version)
    /\ updateCalls' = updateCalls + 1
    /\ \E a \in UpdateAnswers :
          /\ updateRes' = a
          /\ IF a.kind = "exception"
             THEN /\ Finish(OuterExcept(a.exception, cluster_name, nodegroup_name))
                  /\ UNCHANGED <<update_id, pendingUpdate, applied>>
             ELSE /\ applied' = applied + 1
                  /\ pendingUpdate' = updateReq'.releaseVersion
                  /\ IF ~HasKey(a.response, "update")
                     THEN /\ Finish(OuterExcept(KeyErrorExc, cluster_name, nodegroup_name))
                          /\ UNCHANGED update_id
                     ELSE IF ~HasKey(a.response.update, "id")
                     THEN /\ Finish(OuterExcept(KeyErrorExc, cluster_name, nodegroup_name))
                          /\ UNCHANGED update_id
                     ELSE /\ update_id' = a.response.update.id
                          /\ Finish(Returned("UpdateInitiated",
                               [statusCode |-> 200,
                                body |-> JsonDumps(
                                  [message |-> <<"Node group update initiated to AMI release version ",
                                                 latest_release_version>>,
                                   updateId |-> a.response.update.id])]))
    /\ UNCHANGED <<environ, ngVersion, ngRelease, ssm, inv, cluster_name, nodegroup_name,
                   region, current_k8s_version, current_release_version, ssm_parameter,
                   latest_release_version, clientCalls, describeCalls, lookupCalls,
                   clientRes, describeRes, lookupRes, prev>>

\* The schedule invokes the function again.  Between the two invocations an
\* accepted update may have been rolled out (the node group then reports its
\* release version) and a new recommended release may have been published.
Reinvoke ==
    /\ Terminal
    /\ inv < MaxInvocations
    /\ inv' = inv + 1
    /\ prev' = [exit |-> exit,
                target |-> IF exit = "UpdateInitiated" THEN latest_release_version ELSE None,
                ssm |-> ssm, updateCalls |-> updateCalls]
    /\ \/ UNCHANGED <<ngRelease, pendingUpdate>>
       \/ /\ pendingUpdate # None
          /\ ngRelease' = pendingUpdate
          /\ pendingUpdate' = None
    /\ \E r \in Releases \cup {ssm[ngVersion]} : ssm' = [ssm EXCEPT ![ngVersion] = r]
    /\ pc' = "start"
    /\ cluster_name' = None /\ nodegroup_name' = None /\ region' = None
    /\ current_k8s_version' = None /\ current_release_version' = None
    /\ ssm_parameter' = None /\ latest_release_version' = None /\ update_id' = None
    /\ result' = NoResult /\ exit' = "none"
    /\ clientCalls' = 0 /\ describeCalls' = 0 /\ lookupCalls' = 0 /\ updateCalls' = 0
    /\ clientRes' = NoAnswer /\ describeRes' = NoAnswer /\ lookupRes' = NoAnswer
    /\ updateRes' = NoAnswer /\ updateReq' = NoAnswer
    /\ applied' = 0
    /\ UNCHANGED <<environ, ngVersion>>

Next ==
    \/ ReadConfig
    \/ CreateClients
    \/ Describe
    \/ Lookup
    \/ Compare
    \/ Update
    \/ Reinvoke

Spec == Init /\ [][Next]_vars

\* ---------------------------------------------------------------- claims
Missing(v) == v \in {Absent, ""}
BothVersionsRead == current_release_version # None /\ latest_release_version # None
NoRemoteCall == describeCalls = 0 /\ lookupCalls = 0 /\ updateCalls = 0
UpdateAccepted ==
    /\ updateRes.kind = "ok"
    /\ HasKey(updateRes.response, "update")
    /\ HasKey(updateRes.response.update, "id")

\* C1: within one invocation update_nodegroup_version is called at most once,
\* and when the invocation has ended it has been called if and only if the
\* release version read from describe_nodegroup differs from the recommended
\* version read from the parameter lookup.
C1_UpdateIffVersionsDiffer ==
    /\ updateCalls <= 1
    /\ updateCalls = 1 => (BothVersionsRead /\ current_release_version # latest_release_version)
    /\ Terminal =>
         (updateCalls = 1 <=>
            (BothVersionsRead /\ current_release_version # latest_release_version))
C1_Witness ==
    /\ pc = "done" /\ exit = "UpdateInitiated" /\ updateCalls = 1
    /\ current_release_version = "1.26.12-20240307"
    /\ latest_release_version = "1.26.12-20240329"

C3_SingleNonDisruptiveUpdate ==
    /\ (Terminal /\ BothVersionsRead /\ current_release_version # latest_release_version)
       => /\ updateCalls = 1
          /\ DOMAIN updateReq = {"clusterName", "nodegroupName", "releaseVersion", "force"}
          /\ updateReq.clusterName = environ.CLUSTER_NAME
          /\ updateReq.nodegroupName = environ.NODEGROUP_NAME
          /\ updateReq.releaseVersion = latest_release_version
          /\ updateReq.force = FALSE
    /\ (Terminal /\ UpdateAccepted)
       => /\ pc = "done" /\ exit = "UpdateInitiated"
          /\ result.statusCode = 200
          /\ result.body.json.updateId = updateRes.response.update.id
          /\ result.body.json.message[2] = latest_release_version
          /\ latest_release_version = ssm[ngVersion]
C3_Witness ==
    /\ pc = "done" /\ exit = "UpdateInitiated"
    /\ updateRes.kind = "ok" /\ result.body.json.updateId = "update-2"

\* C4: when the release version read equals the recommended version read, the
\* invocation returns UpToDate (200) and never calls update_nodegroup_version.
C4_EqualMeansUpToDate ==
    (BothVersionsRead /\ current_release_version = latest_release_version)
    => /\ updateCalls = 0 /\ applied = 0
       /\ pc \in {"compare", "done"}
       /\ pc = "done" => (exit = "UpToDate" /\ result.statusCode = 200)
C4_Witness ==
    /\ pc = "done" /\ exit = "UpToDate"
    /\ current_release_version = latest_release_version

\* C5: an invocation that ends otherwise than in UpdateInitiated ends with no
\* update accepted by the service.
C5_Original ==
    (Terminal /\ exit # "UpdateInitiated") => applied = 0

\* C6: the invocation never ends by raising, and a returned result carries one
\* of the status codes 200, 400, 404, 500.
C6_Original ==
    /\ pc # "raised"
    /\ pc = "done" => result.statusCode \in {200, 400, 404, 500}

\* C7: when describe_nodegroup fails with the service error
\* ResourceNotFoundException (an error response carrying Code and Message), the
\* invocation returns NotFound (404) and makes no update call.
C7_DescribeNotFound ==
    (/\ describeRes.kind = "exception"
     /\ describeRes.exception.type = "ClientError"
     /\ WellFormedError(describeRes.exception.response)
     /\ describeRes.exception.response.Error.Code = "ResourceNotFoundException")
    => /\ pc = "done" /\ exit = "NotFound"
       /\ result.statusCode = 404
       /\ result.body.json[2] = environ.CLUSTER_NAME
       /\ result.body.json[4] = environ.NODEGROUP_NAME
       /\ lookupCalls = 0 /\ updateCalls = 0 /\ applied = 0
C7_Witness ==
    /\ describeRes.kind = "exception"
    /\ describeRes.exception.type = "ClientError"
    /\ WellFormedError(describeRes.exception.response)
    /\ describeRes.exception.response.Error.Code = "ResourceNotFoundException"
    /\ pc = "done"

\* C8: when the registry has no entry for the path built from the platform
\* version describe returned and get_parameter raises ParameterNotFound, the
\* invocation returns Unsupported (400) naming that platform version and makes
\* no update call.
C8_ParameterNotFound ==
    (lookupRes.kind = "exception" /\ lookupRes.exception.type = "ParameterNotFound")
    => /\ ssm[ngVersion] = NoEntry
       /\ ssm_parameter = SsmParameter(describeRes.response.nodegroup.version)
       /\ pc = "done" /\ exit = "Unsupported"
       /\ result.statusCode = 400
       /\ result.body.json[2] = describeRes.response.nodegroup.version
       /\ updateCalls = 0 /\ applied = 0
C8_Witness ==
    /\ lookupRes.kind = "exception" /\ lookupRes.exception.type = "ParameterNotFound"
    /\ pc = "done" /\ ngVersion = "1.27"

\* C9: when the previous invocation ended in UpdateInitiated with target R, the
\* node group now reports release version R, the registry is unchanged and the
\* services answer the reads of this invocation, this invocation ends in
\* UpToDate without an update call: one update call over the two invocations.
SecondAfterReflectedUpdate ==
    /\ inv >= 2
    /\ prev.exit = "UpdateInitiated"
    /\ ngRelease = prev.target
    /\ ssm = prev.ssm
    /\ clientRes.kind = "ok"
    /\ describeRes = DescribeTrue(ngVersion, ngRelease)
    /\ lookupRes = LookupTrue(ssm[ngVersion])
C9_Idempotent ==
    (SecondAfterReflectedUpdate /\ pc # "compare")
    => /\ pc = "done" /\ exit = "UpToDate"
       /\ updateCalls = 0 /\ applied = 0
       /\ prev.updateCalls + updateCalls = 1
C9_Witness ==
    /\ SecondAfterReflectedUpdate
    /\ pc = "done" /\ exit = "UpToDate"

\* C10 as stated: with cluster and node-group identifiers present, no value of
\* the region entry (unset, empty, any other) leads to ConfigInvalid; the
\* invocation goes on to the clients and the describe call, an unset region
\* being replaced by the fallback.
C10_Original ==
    (~Missing(environ.CLUSTER_NAME) /\ ~Missing(environ.NODEGROUP_NAME) /\ pc # "start")
    => /\ exit # "ConfigInvalid"
       /\ pc = "clients" \/ clientCalls = 1
       /\ environ.AWS_REGION = Absent => region = DefaultRegion

\* C10 amended: with cluster and node-group identifiers present, a region that
\* is unset or set to a non-empty value never leads to ConfigInvalid: the
\* invocation goes on to create the clients and, once they exist, to the
\* describe call, an unset region being replaced by the fallback us-west-2; a
\* region set to the empty string ends in ConfigInvalid.
C10_RegionDefaulted ==
    (~Missing(environ.CLUSTER_NAME) /\ ~Missing(environ.NODEGROUP_NAME) /\ pc # "start")
    => /\ environ.AWS_REGION # ""
          => /\ exit # "ConfigInvalid"
             /\ pc = "clients" \/ clientCalls = 1
             /\ (clientCalls = 1 /\ clientRes.kind = "ok")
                   => (pc = "describe" \/ describeCalls = 1)
             /\ region = IF environ.AWS_REGION = Absent THEN DefaultRegion
                         ELSE environ.AWS_REGION
       /\ environ.AWS_REGION = ""
          => (pc = "done" /\ exit = "ConfigInvalid" /\ describeCalls = 0)
C10_Witness ==
    /\ environ.AWS_REGION = Absent /\ region = DefaultRegion
    /\ describeCalls = 1

====
